---- MODULE Spec2Model ----
(***************************************************************************)
(* A model of bonnet's knowledge-graph storage and retrieval engine        *)
(* (src/bonnet/database.py): the record tables, the nodes and edges        *)
(* tables, the store/link operations, the breadth-first traversal          *)
(* get_related_nodes, the tree builder get_graph_structure, the searches   *)
(* and the identifier counters.                                            *)
(*                                                                         *)
(* Text.  A Python string is modelled as a sequence of symbols.  A symbol  *)
(* is either a word (a maximal run of letters and digits, kept atomic) or  *)
(* a single separator character (" ", "-", ":", ".", the double quote).     *)
(* The id "T1" is <<"T1">>, the id "T1-h1" is <<"T1", "-", "h1">>, None    *)
(* and '' are both <<>> (the code only ever tests them for truthiness).    *)
(* No word of the model is a part of another word, and none is the name of *)
(* a column of an FTS table.                                               *)
(*                                                                         *)
(* Identifiers.  uuid4().hex[:8] is a fresh value; node and edge ids are   *)
(* modelled by their row numbers (1, 2, ...), attribute suffixes by        *)
(* HexNames[k].  A collision of two random ids is not modelled.            *)
(***************************************************************************)
EXTENDS Integers, Sequences, FiniteSets, TLC

VARIABLES
    entities,        \* table entities: id -> row
    attributes,      \* table attributes: id -> row
    files,           \* table files: id -> row
    nodes,           \* table nodes, in rowid order
    edges,           \* table edges, in rowid order
    last,            \* the operation called last and how it ended
    pc,              \* "idle", or the query in progress
    node_id,         \* get_related_nodes: the seed argument
    max_depth,       \* get_related_nodes / get_graph_structure: argument
    depth,           \* get_related_nodes: loop variable
    related_nodes,   \* get_related_nodes: local
    visited,         \* get_related_nodes: local
    current_level,   \* get_related_nodes: local
    expansions,      \* how often each node's edges were queried (history)
    result,          \* what the finished get_related_nodes returned
    include_related, \* get_graph_structure: argument
    search_results,  \* get_graph_structure: local
    calls,           \* get_graph_structure: the top-level calls still to make
    stack,           \* get_graph_structure: the build_node_tree calls in progress
    processed_nodes, \* get_graph_structure: local
    graph_nodes,     \* get_graph_structure: the trees built, one entry a node
    id_counters,     \* table id_counters: prefix -> next_number
    issued,          \* what get_next_id_number returned, prefix by prefix (history)
    now,             \* CURRENT_TIMESTAMP, in seconds
    found            \* what the search called last returned

dbVars  == <<entities, attributes, files, nodes, edges>>
relVars == <<node_id, depth, related_nodes, visited, current_level, result>>
gsVars  == <<include_related, search_results, calls, stack, processed_nodes,
             graph_nodes>>
\* the counters, the clock and the last search result
sideVars == <<id_counters, issued, now, found>>
\* everything the store and link operations leave alone
qVars   == <<max_depth, expansions, node_id, depth, related_nodes, visited,
             current_level, result, include_related, search_results, calls,
             stack, processed_nodes, graph_nodes, id_counters, issued, now,
             found>>
vars    == <<entities, attributes, files, nodes, edges, last, pc, max_depth,
             expansions, node_id, depth, related_nodes, visited, current_level,
             result, include_related, search_results, calls, stack,
             processed_nodes, graph_nodes, id_counters, issued, now, found>>

----------------------------------------------------------------------------
(* Bounds *)

\* rows of the nodes and edges tables in the storage specification Spec
MaxNodes == 3
MaxEdges == 1
\* rows of the nodes and edges tables, and the largest depth asked for, in the
\* traversal specifications
GraphNodes == 3
GraphEdges == 2
MaxDepth == 3

----------------------------------------------------------------------------
(* Text *)

Quote == "\""

Separators == {" ", "-", ":", ".", Quote}

None == <<>>

HexNames == <<"h1", "h2", "h3", "h4", "h5", "h6">>

RECURSIVE join(_, _)
\* sep.join(parts)
join(sep, parts) ==
    IF parts = <<>> THEN <<>>
    ELSE IF Len(parts) = 1 THEN parts[1]
    ELSE parts[1] \o sep \o join(sep, Tail(parts))

\* truthiness of an optional string
truthy(s) == s # None

----------------------------------------------------------------------------
(* Searchable content builders *)

build_entity_searchable_content(record_data) ==
    LET content_parts ==
            <<record_data.name>>
            \o (IF truthy(record_data.short_name)
                THEN <<record_data.short_name>> ELSE <<>>)
    IN join(<<" ">>, content_parts)

build_attribute_searchable_content(record_data) ==
    LET content_parts ==
            <<record_data.type>>
            \o (IF truthy(record_data.subject)
                THEN <<record_data.subject>> ELSE <<>>)
            \o (IF truthy(record_data.detail)
                THEN <<record_data.detail>> ELSE <<>>)
    IN join(<<" ">>, content_parts)

build_file_searchable_content(record_data) ==
    LET content_parts ==
            <<record_data.file_path>>
            \o (IF truthy(record_data.description)
                THEN <<record_data.description>> ELSE <<>>)
    IN join(<<" ">>, content_parts)

SEARCHABLE_BUILDERS == {"entities", "attributes", "files"}

builder(table_name, record_data) ==
    CASE table_name = "entities" ->
             build_entity_searchable_content(record_data)
      [] table_name = "attributes" ->
             build_attribute_searchable_content(record_data)
      [] table_name = "files" ->
             build_file_searchable_content(record_data)

\* RECORD_TYPES: the searchable_fields of the type stored in a table
searchable_fields(table_name) ==
    CASE table_name = "entities"   -> <<"name", "short_name">>
      [] table_name = "attributes" -> <<"type", "subject", "detail">>
      [] table_name = "files"      -> <<"file_path", "description">>

----------------------------------------------------------------------------
(* Tables *)

\* INSERT into a table keyed by its primary key
Insert(table, key, row) ==
    [k \in DOMAIN table \cup {key} |-> IF k = key THEN row ELSE table[k]]

NodeIds == {nodes[i].id : i \in DOMAIN nodes}

\* what a lookup that finds no row returns (None)
NoNode == 0

\* the id the next node / edge row gets
fresh_node_id(ns) == Len(ns) + 1
fresh_edge_id(es) == Len(es) + 1

\* create_node: the nodes table after the INSERT has been committed; the
\* column created_at defaults to CURRENT_TIMESTAMP
create_node(ns, table_name, record_id, record_data) ==
    Append(ns, [id                 |-> fresh_node_id(ns),
                table_name         |-> table_name,
                record_id          |-> record_id,
                searchable_content |-> builder(table_name, record_data),
                created_at         |-> now])

\* the INSERT INTO edges of create_edge and store_attribute
insert_edge(es, from_node_id, to_node_id, edge_type, searchable_content) ==
    Append(es, [id                 |-> fresh_edge_id(es),
                from_node_id       |-> from_node_id,
                to_node_id         |-> to_node_id,
                edge_type          |-> edge_type,
                searchable_content |-> searchable_content])

EmptyTable == [k \in {} |-> None]

Outcome(op, id, status) == [op |-> op, id |-> id, status |-> status]

Idle == pc = "idle"

----------------------------------------------------------------------------
(* Store operations *)

\* store_entity with INSERT OR REPLACE in place of the existence check
store_entity_replacing(e_id, entity_name, short_name) ==
    LET entity_data == [name |-> entity_name, short_name |-> short_name]
        new_node_id == fresh_node_id(nodes)
    IN  /\ Idle
        /\ nodes' = create_node(nodes, "entities", e_id, entity_data)
        /\ entities' = Insert(entities, e_id,
                              [id         |-> e_id,
                               name       |-> entity_name,
                               short_name |-> short_name,
                               node_id    |-> new_node_id])
        /\ last' = Outcome("store_entity", e_id, "ok")
        /\ UNCHANGED <<attributes, files, edges, pc>>
        /\ UNCHANGED qVars

store_entity(e_id, entity_name, short_name) ==
    LET entity_data == [name |-> entity_name, short_name |-> short_name]
        new_node_id == fresh_node_id(nodes)
    IN  /\ Idle
        \* create_node commits its own transaction before the entity is checked
        /\ nodes' = create_node(nodes, "entities", e_id, entity_data)
        /\ IF e_id \in DOMAIN entities
             THEN /\ entities' = entities
                  /\ last' = Outcome("store_entity", e_id, "already_exists")
             ELSE /\ entities' = Insert(entities, e_id,
                                    [id         |-> e_id,
                                     name       |-> entity_name,
                                     short_name |-> short_name,
                                     node_id    |-> new_node_id])
                  /\ last' = Outcome("store_entity", e_id, "ok")
        /\ UNCHANGED <<attributes, files, edges, pc>>
        /\ UNCHANGED qVars

\* store_file with INSERT OR REPLACE in place of the existence check
store_file_replacing(file_id, file_path, description) ==
    LET file_data == [file_path |-> file_path, description |-> description]
        new_node_id == fresh_node_id(nodes)
    IN  /\ Idle
        /\ nodes' = create_node(nodes, "files", file_id, file_data)
        /\ files' = Insert(files, file_id,
                           [id          |-> file_id,
                            file_path   |-> file_path,
                            description |-> description,
                            node_id     |-> new_node_id])
        /\ last' = Outcome("store_file", file_id, "ok")
        /\ UNCHANGED <<entities, attributes, edges, pc>>
        /\ UNCHANGED qVars

store_file(file_id, file_path, description) ==
    LET file_data == [file_path |-> file_path, description |-> description]
        new_node_id == fresh_node_id(nodes)
    IN  /\ Idle
        /\ nodes' = create_node(nodes, "files", file_id, file_data)
        /\ IF file_id \in DOMAIN files
             THEN /\ files' = files
                  /\ last' = Outcome("store_file", file_id, "already_exists")
             ELSE /\ files' = Insert(files, file_id,
                                    [id          |-> file_id,
                                     file_path   |-> file_path,
                                     description |-> description,
                                     node_id     |-> new_node_id])
                  /\ last' = Outcome("store_file", file_id, "ok")
        /\ UNCHANGED <<entities, attributes, edges, pc>>
        /\ UNCHANGED qVars

\* store_attribute without the edge to the attribute
store_attribute_unlinked(attr_id, attr_type, subject, detail) ==
    LET unique_attr_id == attr_id \o <<"-", HexNames[Len(nodes) + 1]>>
        attribute_data == [type |-> attr_type, subject |-> subject,
                           detail |-> detail]
        attribute_node_id == fresh_node_id(nodes)
    IN  /\ Idle
        /\ nodes' = create_node(nodes, "attributes", unique_attr_id,
                                attribute_data)
        /\ attributes' = Insert(attributes, unique_attr_id,
                                [id      |-> unique_attr_id,
                                 type    |-> attr_type,
                                 subject |-> subject,
                                 detail  |-> detail,
                                 node_id |-> attribute_node_id])
        /\ edges' = edges
        /\ last' = Outcome("store_attribute", unique_attr_id, "ok")
        /\ UNCHANGED <<entities, files, pc>>
        /\ UNCHANGED qVars

store_attribute(attr_id, attr_type, subject, detail) ==
    LET unique_attr_id == attr_id \o <<"-", HexNames[Len(nodes) + 1]>>
        attribute_data == [type |-> attr_type, subject |-> subject,
                           detail |-> detail]
        attribute_node_id == fresh_node_id(nodes)
    IN  /\ Idle
        /\ nodes' = create_node(nodes, "attributes", unique_attr_id,
                                attribute_data)
        /\ attributes' = Insert(attributes, unique_attr_id,
                                [id      |-> unique_attr_id,
                                 type    |-> attr_type,
                                 subject |-> subject,
                                 detail  |-> detail,
                                 node_id |-> attribute_node_id])
        \* the edge is made only when attr_id names an entity
        /\ IF attr_id \in DOMAIN entities
             THEN edges' = insert_edge(edges, entities[attr_id].node_id,
                                       attribute_node_id, <<"has_attribute">>,
                                       attr_type \o <<":", " ">> \o subject)
             ELSE edges' = edges
        /\ last' = Outcome("store_attribute", unique_attr_id, "ok")
        /\ UNCHANGED <<entities, files, pc>>
        /\ UNCHANGED qVars

\* the table an f-string SELECT ... FROM {table_name} reads
table(table_name) ==
    CASE table_name = "entities"   -> entities
      [] table_name = "attributes" -> attributes
      [] table_name = "files"      -> files

get_node_id_by_record_id(table_name, record_id) ==
    IF record_id \in DOMAIN table(table_name)
    THEN table(table_name)[record_id].node_id
    ELSE NoNode

\* get_entity_context with the two names of the entity row taken in the wrong
\* order
get_entity_context_swapped(e_id) ==
    IF e_id \notin DOMAIN entities THEN <<>>
    ELSE <<[e_id              |-> e_id,
            entity_name       |-> entities[e_id].short_name,
            entity_short_name |-> entities[e_id].name,
            entity_node_id    |-> entities[e_id].node_id,
            attributes        |-> {attributes[a] : a \in DOMAIN attributes}]>>

\* get_entity_context: the dict it returns, as <<dict>>, or <<>> when it
\* raises ValueError (entity not found).  The attributes are the rows of
\* SELECT ... FROM attributes ORDER BY type, subject, as a set
get_entity_context(e_id) ==
    IF e_id \notin DOMAIN entities THEN <<>>
    ELSE <<[e_id              |-> e_id,
            entity_name       |-> entities[e_id].name,
            entity_short_name |-> entities[e_id].short_name,
            entity_node_id    |-> entities[e_id].node_id,
            attributes        |-> {attributes[a] : a \in DOMAIN attributes}]>>

create_edge(from_node_id, to_node_id, edge_type, searchable_content) ==
    /\ Idle
    \* no check of the node ids; SQLite does not enforce the FOREIGN KEY
    \* clauses unless PRAGMA foreign_keys is switched on, and it never is
    /\ edges' = insert_edge(edges, from_node_id, to_node_id, edge_type,
                            searchable_content)
    /\ last' = Outcome("create_edge", <<>>, "ok")
    /\ UNCHANGED <<entities, attributes, files, nodes, pc>>
    /\ UNCHANGED qVars

\* link_nodes without its two `if not ..._node_id: raise ValueError`
link_nodes_unchecked(from_table, from_record_id, to_table, to_record_id, edge_type, searchable_content) ==
    LET from_node_id == get_node_id_by_record_id(from_table, from_record_id)
        to_node_id   == get_node_id_by_record_id(to_table, to_record_id)
        content ==
            IF truthy(searchable_content) THEN searchable_content
            ELSE join(<<" ">>, <<<<from_table>>, from_record_id, edge_type,
                                 <<to_table>>, to_record_id>>)
    IN  /\ Idle
        /\ edges' = insert_edge(edges, from_node_id, to_node_id, edge_type,
                                content)
        /\ last' = Outcome("link_nodes", from_record_id, "ok")
        /\ UNCHANGED <<entities, attributes, files, nodes, pc>>
        /\ UNCHANGED qVars

link_nodes(from_table, from_record_id, to_table, to_record_id, edge_type, searchable_content) ==
    LET from_node_id == get_node_id_by_record_id(from_table, from_record_id)
        to_node_id   == get_node_id_by_record_id(to_table, to_record_id)
        content ==
            IF truthy(searchable_content) THEN searchable_content
            ELSE join(<<" ">>, <<<<from_table>>, from_record_id, edge_type,
                                 <<to_table>>, to_record_id>>)
    IN  /\ Idle
        /\ IF from_node_id = NoNode \/ to_node_id = NoNode
             THEN /\ edges' = edges
                  /\ last' = Outcome("link_nodes", from_record_id, "not_found")
             ELSE /\ edges' = insert_edge(edges, from_node_id, to_node_id,
                                          edge_type, content)
                  /\ last' = Outcome("link_nodes", from_record_id, "ok")
        /\ UNCHANGED <<entities, attributes, files, nodes, pc>>
        /\ UNCHANGED qVars

\* create_node without the test `table_name not in SEARCHABLE_BUILDERS`: a
\* table without a builder gets a node of no content
create_node_call_unchecked(table_name, record_id, record_data) ==
    /\ Idle
    /\ IF table_name \notin SEARCHABLE_BUILDERS
         THEN nodes' = Append(nodes, [id                 |-> fresh_node_id(nodes),
                                      table_name         |-> table_name,
                                      record_id          |-> record_id,
                                      searchable_content |-> <<>>,
                                      created_at         |-> now])
         ELSE nodes' = create_node(nodes, table_name, record_id, record_data)
    /\ last' = Outcome("create_node", record_id, "ok")
    /\ UNCHANGED <<entities, attributes, files, edges, pc>>
    /\ UNCHANGED qVars

\* a caller of create_node gets the id of the new node, or ValueError (no
\* searchable builder registered for the table)
create_node_call(table_name, record_id, record_data) ==
    /\ Idle
    /\ IF table_name \notin SEARCHABLE_BUILDERS
         THEN /\ nodes' = nodes
              /\ last' = Outcome("create_node", record_id, "unregistered")
         ELSE /\ nodes' = create_node(nodes, table_name, record_id, record_data)
              /\ last' = Outcome("create_node", record_id, "ok")
    /\ UNCHANGED <<entities, attributes, files, edges, pc>>
    /\ UNCHANGED qVars

----------------------------------------------------------------------------
(* get_related_nodes: one action per iteration of `for depth in range(...)` *)

\* SELECT to_node_id FROM edges WHERE from_node_id = ?
outgoing(es, n) ==
    {es[i].to_node_id : i \in {j \in DOMAIN es : es[j].from_node_id = n}}

\* SELECT from_node_id FROM edges WHERE to_node_id = ?
incoming(es, n) ==
    {es[i].from_node_id : i \in {j \in DOMAIN es : es[j].to_node_id = n}}

\* the inner loop body without its second query
neighbours_outgoing_only(es, n) == outgoing(es, n)

\* what one pass of the inner loop body adds to related_nodes and next_level
neighbours(es, n) == outgoing(es, n) \cup incoming(es, n)

\* the loop without `if current_node in visited: continue`
unvisited_unchecked(level, seen) == level

\* the nodes of a level that get past `if current_node in visited: continue`
unvisited(level, seen) == level \ seen

\* for depth in range(max_depth + 1)
in_range_inclusive(d, stop) == d <= stop

\* for depth in range(max_depth)
in_range(d, stop) == d < stop

count(n) == IF n \in DOMAIN expansions THEN expansions[n] ELSE 0

get_related_nodes(n, d) ==
    /\ Idle
    /\ pc' = "get_related_nodes"
    /\ node_id' = n
    /\ max_depth' = d
    /\ depth' = 0
    /\ related_nodes' = {}
    /\ visited' = {}
    /\ current_level' = {n}
    /\ expansions' = EmptyTable
    /\ result' = {}
    /\ last' = Outcome("get_related_nodes", <<>>, "running")
    /\ UNCHANGED dbVars
    /\ UNCHANGED gsVars
    /\ UNCHANGED sideVars

expand_level ==
    /\ pc = "get_related_nodes"
    /\ in_range(depth, max_depth)
    /\ LET expanded   == unvisited(current_level, visited)
           next_level == UNION {neighbours(edges, n) : n \in expanded}
       IN  /\ visited' = visited \cup expanded
           /\ related_nodes' = related_nodes \cup next_level
           /\ current_level' = next_level
           /\ expansions' =
                  [n \in DOMAIN expansions \cup expanded |->
                       count(n) + (IF n \in expanded THEN 1 ELSE 0)]
    /\ depth' = depth + 1
    /\ UNCHANGED <<node_id, max_depth, result, last, pc>>
    /\ UNCHANGED dbVars
    /\ UNCHANGED gsVars
    /\ UNCHANGED sideVars

\* SELECT ... FROM nodes WHERE id IN (related_nodes)
get_related_nodes_return ==
    /\ pc = "get_related_nodes"
    /\ ~ in_range(depth, max_depth)
    /\ result' = {nodes[i].id :
                    i \in {j \in DOMAIN nodes : nodes[j].id \in related_nodes}}
    /\ pc' = "related_returned"
    /\ last' = Outcome("get_related_nodes", <<>>, "ok")
    /\ UNCHANGED <<node_id, max_depth, depth, related_nodes, visited,
                   current_level, expansions>>
    /\ UNCHANGED dbVars
    /\ UNCHANGED gsVars
    /\ UNCHANGED sideVars

----------------------------------------------------------------------------
(* Full-text search: search_nodes *)

\* the unicode61 tokenizer folds case
fold(w) ==
    CASE w = "T1"   -> "t1"
      [] w = "T2"   -> "t2"
      [] w = "F1"   -> "f1"
      [] w = "FACT" -> "fact"
      [] w = "CAR"  -> "car"
      [] OTHER      -> w

\* the porter tokenizer of edges_fts stems what unicode61 hands it
stem(w) ==
    CASE w = "references" -> "refer"
      [] w = "reference"  -> "refer"
      [] w = "entities"   -> "entiti"
      [] w = "attributes" -> "attribut"
      [] w = "files"      -> "file"
      [] OTHER            -> w

RECURSIVE tokens(_)
\* unicode61: the words of a text, separators dropped, case folded
tokens(text) ==
    IF text = <<>> THEN <<>>
    ELSE IF Head(text) \in Separators THEN tokens(Tail(text))
    ELSE <<fold(Head(text))>> \o tokens(Tail(text))

porter_tokens(text) ==
    LET t == tokens(text) IN [i \in DOMAIN t |-> stem(t[i])]

\* an FTS5 phrase matches a column that holds its tokens next to each other, in
\* order; a phrase of no token matches nothing
phrase_in(phrase, column) ==
    /\ phrase # <<>>
    /\ \E i \in 0 .. Len(column) - Len(phrase) :
           SubSeq(column, i + 1, i + Len(phrase)) = phrase

\* the barewords FTS5 reads as operators
Keywords == {"AND", "OR", "NOT"}

RECURSIVE string_end(_, _)
\* FTS5 query syntax: the index, from i on, of the quote that closes a string
\* (a doubled quote inside a string is an escaped quote), 0 if there is none
string_end(text, i) ==
    IF i > Len(text) THEN 0
    ELSE IF text[i] # Quote THEN string_end(text, i + 1)
    ELSE IF i < Len(text) /\ text[i + 1] = Quote THEN string_end(text, i + 2)
    ELSE i

Lexeme(kind, terms) == [kind |-> kind, terms |-> terms]

RECURSIVE lex(_)
\* FTS5 query syntax: the lexemes of a MATCH expression.  A string and a
\* bareword are phrases; a string without its closing quote, and "-", ":" and
\* "." outside a string (a syntax error, or a column that does not exist), are
\* errors
lex(text) ==
    IF text = <<>> THEN <<>>
    ELSE IF Head(text) = " " THEN lex(Tail(text))
    ELSE IF Head(text) = Quote
         THEN LET e == string_end(text, 2)
              IN  IF e = 0 THEN <<Lexeme("error", <<>>)>>
                  ELSE <<Lexeme("phrase", tokens(SubSeq(text, 2, e - 1)))>>
                       \o lex(SubSeq(text, e + 1, Len(text)))
    ELSE IF Head(text) \in Separators THEN <<Lexeme("error", <<>>)>>
    ELSE IF Head(text) \in Keywords
         THEN <<Lexeme(Head(text), <<>>)>> \o lex(Tail(text))
    ELSE <<Lexeme("phrase", <<fold(Head(text))>>)>> \o lex(Tail(text))

\* FTS5 query syntax: the expressions the parser accepts; every other one
\* raises sqlite3.OperationalError
syntax_ok(lexs) ==
    /\ lexs # <<>>
    /\ \A i \in DOMAIN lexs : lexs[i].kind # "error"
    /\ lexs[1].kind = "phrase"
    /\ lexs[Len(lexs)].kind = "phrase"
    /\ \A i \in 1 .. Len(lexs) - 1 :
           ~ (lexs[i].kind \in Keywords /\ lexs[i + 1].kind \in Keywords)

RECURSIVE split(_, _)
\* the parts of an expression that the operator op stands between
split(lexs, op) ==
    LET at == {i \in DOMAIN lexs : lexs[i].kind = op}
    IN  IF at = {} THEN <<lexs>>
        ELSE LET i == CHOOSE j \in at : \A k \in at : j <= k
             IN  <<SubSeq(lexs, 1, i - 1)>>
                 \o split(SubSeq(lexs, i + 1, Len(lexs)), op)

\* phrases standing side by side (the implicit AND, which binds tightest): the
\* row holds every phrase, each in one of its columns; phrases of no token are
\* dropped, and when none is left nothing matches
all_phrases(lexs, columns) ==
    LET wanted == {lexs[i].terms : i \in DOMAIN lexs} \ {<<>>}
    IN  /\ wanted # {}
        /\ \A t \in wanted : \E c \in DOMAIN columns : phrase_in(t, columns[c])

\* a NOT b NOT c
not_chain(lexs, columns) ==
    LET parts == split(lexs, "NOT")
    IN  /\ all_phrases(parts[1], columns)
        /\ \A i \in 2 .. Len(parts) : ~ all_phrases(parts[i], columns)

\* a AND b AND c
and_chain(lexs, columns) ==
    LET parts == split(lexs, "AND")
    IN  \A i \in DOMAIN parts : not_chain(parts[i], columns)

\* a OR b OR c: whether a row with these columns matches the expression
fts5_match(lexs, columns) ==
    LET parts == split(lexs, "OR")
    IN  \E i \in DOMAIN parts : and_chain(parts[i], columns)

\* the porter tokenizer stems the terms of the expression too
porter_lex(lexs) ==
    [i \in DOMAIN lexs |->
        Lexeme(lexs[i].kind,
               [k \in DOMAIN lexs[i].terms |-> stem(lexs[i].terms[k])])]

\* nodes_fts MATCH ?: columns record_id and searchable_content
node_matches(row, fts_query) ==
    fts5_match(lex(fts_query),
               <<tokens(row.record_id), tokens(row.searchable_content)>>)

\* edges_fts MATCH ?: column searchable_content, porter stemmed
edge_matches(row, fts_query) ==
    fts5_match(porter_lex(lex(fts_query)),
               <<porter_tokens(row.searchable_content)>>)

node_result(row) == [source |-> "node", node_id |-> row.id]

edge_result(row) ==
    [source |-> "edge", edge_id |-> row.id,
     from_node_id |-> row.from_node_id, to_node_id |-> row.to_node_id]

RECURSIVE select_results(_, _, _)
\* the rows of a table that match, in rowid order, as result dicts
select_results(rows, fts_query, kind) ==
    IF rows = <<>> THEN <<>>
    ELSE LET row  == Head(rows)
             rest == select_results(Tail(rows), fts_query, kind)
         IN  IF kind = "node"
             THEN (IF node_matches(row, fts_query)
                   THEN <<node_result(row)>> ELSE <<>>) \o rest
             ELSE (IF edge_matches(row, fts_query)
                   THEN <<edge_result(row)>> ELSE <<>>) \o rest

\* escaped_query = f'"{query}"'
escaped_query(query) == <<Quote>> \o query \o <<Quote>>

\* the MATCH of search_nodes raises sqlite3.OperationalError, which nothing
\* catches
search_nodes_raises(query) == ~ syntax_ok(lex(escaped_query(query)))

\* what search_nodes returns when it does not raise
search_nodes(query) ==
    select_results(nodes, escaped_query(query), "node")
    \o select_results(edges, escaped_query(query), "edge")

\* a caller of search_nodes gets its list, or its error
search_nodes_call(query) ==
    /\ Idle
    /\ IF search_nodes_raises(query)
         THEN /\ found' = <<>>
              /\ last' = Outcome("search_nodes", query, "error")
         ELSE /\ found' = search_nodes(query)
              /\ last' = Outcome("search_nodes", query, "ok")
    /\ UNCHANGED <<pc, id_counters, issued, now>>
    /\ UNCHANGED dbVars
    /\ UNCHANGED relVars
    /\ UNCHANGED gsVars
    /\ UNCHANGED <<max_depth, expansions>>

----------------------------------------------------------------------------
(* search_records and get_recent_records *)

\* get_recent_records(10)
RecentLimit == 10
\* LIMIT 20 of the LIKE search
LikeLimit == 20

RECURSIVE lstrip(_)
lstrip(text) ==
    IF text # <<>> /\ Head(text) = " " THEN lstrip(Tail(text)) ELSE text

RECURSIVE rstrip(_)
rstrip(text) ==
    IF text # <<>> /\ text[Len(text)] = " "
    THEN rstrip(SubSeq(text, 1, Len(text) - 1)) ELSE text

\* query.strip()
strip(text) == rstrip(lstrip(text))

RECURSIVE replace_quotes(_)
\* query.replace('"', '""')
replace_quotes(text) ==
    IF text = <<>> THEN <<>>
    ELSE (IF Head(text) = Quote THEN <<Quote, Quote>> ELSE <<Head(text)>>)
         \o replace_quotes(Tail(text))

\* x LIKE '%pattern%': the pattern stands somewhere in x, letters compared
\* without their case
like(pattern, text) ==
    \E i \in 0 .. Len(text) - Len(pattern) :
        \A k \in 1 .. Len(pattern) : fold(text[i + k]) = fold(pattern[k])

record_type(table_name) ==
    CASE table_name = "entities"   -> "entity"
      [] table_name = "attributes" -> "attribute"
      [] table_name = "files"      -> "file"

\* _get_record_data: the record a node row names, as a list of one dict, or
\* the empty list (the name and display strings of the dict are left out)
get_record_data(table_name, record_id, searchable_content) ==
    IF /\ table_name \in SEARCHABLE_BUILDERS
       /\ record_id \in DOMAIN table(table_name)
    THEN <<[type               |-> record_type(table_name),
            id                 |-> record_id,
            searchable_content |-> searchable_content]>>
    ELSE <<>>

RECURSIVE records_of(_)
\* for row in cursor.fetchall(): results.extend(_get_record_data(...))
records_of(rows) ==
    IF rows = <<>> THEN <<>>
    ELSE get_record_data(Head(rows).table_name, Head(rows).record_id,
                         Head(rows).searchable_content)
         \o records_of(Tail(rows))

\* LIMIT n
limit(rows, n) == SubSeq(rows, 1, IF Len(rows) < n THEN Len(rows) ELSE n)

RECURSIVE order_by_created_at_desc(_)
\* ORDER BY n.created_at DESC: the rows of a later second first; the rows of
\* one second come out in rowid order
order_by_created_at_desc(rows) ==
    IF rows = <<>> THEN <<>>
    ELSE LET latest == CHOOSE t \in {rows[i].created_at : i \in DOMAIN rows} :
                           \A i \in DOMAIN rows : rows[i].created_at <= t
         IN  SelectSeq(rows, LAMBDA row : row.created_at = latest)
             \o order_by_created_at_desc(
                    SelectSeq(rows, LAMBDA row : row.created_at # latest))

\* what get_recent_records(n) returns
get_recent_records(n) == records_of(limit(order_by_created_at_desc(nodes), n))

search_records(query) ==
    LET fts_query == replace_quotes(query)
    IN  /\ Idle
        /\ IF ~ truthy(query) \/ ~ truthy(strip(query))
             THEN found' = get_recent_records(RecentLimit)
             ELSE IF syntax_ok(lex(fts_query))
             THEN found' = records_of(
                      SelectSeq(nodes,
                                LAMBDA row : node_matches(row, fts_query)))
             \* except sqlite3.OperationalError
             ELSE found' = records_of(limit(
                      SelectSeq(nodes,
                                LAMBDA row :
                                    \/ like(query, row.searchable_content)
                                    \/ like(query, row.record_id)),
                      LikeLimit))
        /\ last' = Outcome("search_records", query, "ok")
        /\ UNCHANGED <<pc, id_counters, issued, now>>
        /\ UNCHANGED dbVars
        /\ UNCHANGED relVars
        /\ UNCHANGED gsVars
        /\ UNCHANGED <<max_depth, expansions>>

\* a second goes by
tick ==
    /\ now' = now + 1
    /\ UNCHANGED <<last, pc, id_counters, issued, found>>
    /\ UNCHANGED dbVars
    /\ UNCHANGED relVars
    /\ UNCHANGED gsVars
    /\ UNCHANGED <<max_depth, expansions>>

----------------------------------------------------------------------------
(* get_graph_structure: one action per call of build_node_tree *)

get_node_by_id(n) ==
    IF n \in NodeIds THEN <<nodes[CHOOSE i \in DOMAIN nodes : nodes[i].id = n]>>
    ELSE <<>>

\* get_record_by_node reading the table entities whatever table the node names
get_record_by_node_in_entities(n) ==
    LET node_row == get_node_by_id(n)
    IN  IF node_row = <<>> THEN <<>>
        ELSE IF node_row[1].record_id \notin DOMAIN entities THEN <<>>
        ELSE <<entities[node_row[1].record_id]>>

\* the record a node names, as <<record>>, or <<>> for None
get_record_by_node(n) ==
    LET node_row == get_node_by_id(n)
    IN  IF node_row = <<>> THEN <<>>
        ELSE IF node_row[1].table_name \notin SEARCHABLE_BUILDERS THEN <<>>
        ELSE IF node_row[1].record_id
                  \notin DOMAIN table(node_row[1].table_name) THEN <<>>
        ELSE <<table(node_row[1].table_name)[node_row[1].record_id]>>

RECURSIVE related_loop(_, _, _, _, _)
\* the loop `for depth in range(max_depth)` of get_related_nodes, from the
\* iteration d on: the related_nodes it ends with
related_loop(level, seen, related, d, stop) ==
    IF ~ in_range(d, stop) THEN related
    ELSE LET expanded   == unvisited(level, seen)
             next_level == UNION {neighbours(edges, n) : n \in expanded}
         IN  related_loop(next_level, seen \cup expanded,
                          related \cup next_level, d + 1, stop)

\* the node ids of the rows get_related_nodes(n, d) returns
related_node_ids(n, d) == related_loop({n}, {}, {}, 0, d) \cap NodeIds

\* all_related: the related nodes of the nodes found and of both ends of the
\* edges found
all_related(results, d) ==
    UNION {IF results[i].source = "node"
           THEN related_node_ids(results[i].node_id, d)
           ELSE related_node_ids(results[i].from_node_id, d)
                \cup related_node_ids(results[i].to_node_id, d) :
           i \in DOMAIN results}

\* the dict search_knowledge_graph returns; related_records is a list in the
\* order of a Python set, modelled as the set of its records
search_knowledge_graph(query, incl, d) ==
    LET results == search_nodes(query)
        records == {get_record_by_node(n)[1] :
                       n \in {m \in all_related(results, d) :
                                  get_record_by_node(m) # <<>>}}
    IN  /\ Idle
        /\ IF search_nodes_raises(query)
             THEN /\ found' = <<>>
                  /\ last' = Outcome("search_knowledge_graph", query, "error")
             ELSE /\ found' = [search_results  |-> results,
                               related_records |-> IF incl THEN records
                                                   ELSE {}]
                  /\ last' = Outcome("search_knowledge_graph", query, "ok")
        /\ UNCHANGED <<pc, id_counters, issued, now>>
        /\ UNCHANGED dbVars
        /\ UNCHANGED relVars
        /\ UNCHANGED gsVars
        /\ UNCHANGED <<max_depth, expansions>>

RECURSIVE get_edges_from_node_in(_, _)
get_edges_from_node_in(es, n) ==
    IF es = <<>> THEN <<>>
    ELSE (IF Head(es).from_node_id = n THEN <<Head(es)>> ELSE <<>>)
         \o get_edges_from_node_in(Tail(es), n)

\* SELECT * FROM edges, without the WHERE clause
get_edges_from_node_unfiltered(n) == edges

\* SELECT * FROM edges WHERE from_node_id = ?
get_edges_from_node(n) == get_edges_from_node_in(edges, n)

RECURSIVE top_level_calls(_)
\* the build_node_tree calls of the loop over search_results, in order
top_level_calls(results) ==
    IF results = <<>> THEN <<>>
    ELSE (IF Head(results).source = "node"
          THEN <<Head(results).node_id>>
          ELSE <<Head(results).from_node_id, Head(results).to_node_id>>)
         \o top_level_calls(Tail(results))

RECURSIVE unwind(_)
\* a call whose loop over edges is over returns to its caller
unwind(frames) ==
    IF frames = <<>> THEN <<>>
    ELSE IF frames[Len(frames)].edges = <<>>
         THEN unwind(SubSeq(frames, 1, Len(frames) - 1))
         ELSE frames

\* the guard of the node_id in processed_nodes test without the test
already_processed_ignored(n, processed) == FALSE

\* node_id in processed_nodes
already_processed(n, processed) == n \in processed

\* get_graph_structure with an error in place of `return []`
get_graph_structure_raising(query, incl, d) ==
    LET raised  == search_nodes_raises(query)
        results == IF raised THEN <<>> ELSE search_nodes(query)
    IN  /\ Idle
        /\ max_depth' = d
        /\ include_related' = incl
        /\ search_results' = results
        /\ calls' = top_level_calls(results)
        /\ stack' = <<>>
        /\ processed_nodes' = {}
        /\ graph_nodes' = <<>>
        /\ expansions' = EmptyTable
        /\ IF raised \/ results = <<>>
             THEN /\ pc' = "graph_returned"
                  /\ last' = Outcome("get_graph_structure", query, "error")
             ELSE /\ pc' = "get_graph_structure"
                  /\ last' = Outcome("get_graph_structure", query, "running")
        /\ UNCHANGED dbVars
        /\ UNCHANGED relVars
        /\ UNCHANGED sideVars

get_graph_structure(query, incl, d) ==
    LET raised  == search_nodes_raises(query)
        results == IF raised THEN <<>> ELSE search_nodes(query)
    IN  /\ Idle
        /\ max_depth' = d
        /\ include_related' = incl
        /\ search_results' = results
        /\ calls' = top_level_calls(results)
        /\ stack' = <<>>
        /\ processed_nodes' = {}
        /\ graph_nodes' = <<>>
        /\ expansions' = EmptyTable
        /\ IF raised
             \* the error of search_nodes ends the call
             THEN /\ pc' = "graph_returned"
                  /\ last' = Outcome("get_graph_structure", query, "error")
             \* if not search_results: return []
             ELSE IF results = <<>>
             THEN /\ pc' = "graph_returned"
                  /\ last' = Outcome("get_graph_structure", query, "ok")
             ELSE /\ pc' = "get_graph_structure"
                  /\ last' = Outcome("get_graph_structure", query, "running")
        /\ UNCHANGED dbVars
        /\ UNCHANGED relVars
        /\ UNCHANGED sideVars

build_node_tree ==
    /\ pc = "get_graph_structure"
    /\ stack # <<>> \/ calls # <<>>
    /\ LET nested == stack # <<>>
           top    == stack[Len(stack)]
           edge   == Head(top.edges)
           n      == IF nested THEN edge.to_node_id ELSE Head(calls)
           d      == IF nested THEN top.depth + 1 ELSE 0
           parent == IF nested THEN top.index ELSE 0
           via    == IF nested THEN edge.id ELSE 0
           stack1 == IF nested
                     THEN [stack EXCEPT ![Len(stack)].edges = Tail(@)]
                     ELSE stack
           skip   == d > max_depth \/ already_processed(n, processed_nodes)
           record == get_record_by_node(n)
           built  == /\ ~ skip
                     /\ get_node_by_id(n) # <<>>
                     /\ record # <<>>
           node_structure ==
               [node |-> n, record |-> record[1].id, parent |-> parent,
                depth |-> d, via |-> via]
           frame  == [node |-> n, depth |-> d,
                      index |-> Len(graph_nodes) + 1,
                      edges |-> get_edges_from_node(n)]
       IN  /\ calls' = IF nested THEN calls ELSE Tail(calls)
           /\ processed_nodes' =
                  IF skip THEN processed_nodes ELSE processed_nodes \cup {n}
           /\ graph_nodes' =
                  IF built THEN Append(graph_nodes, node_structure)
                  ELSE graph_nodes
           /\ expansions' =
                  IF built
                  THEN [m \in DOMAIN expansions \cup {n} |->
                           count(m) + (IF m = n THEN 1 ELSE 0)]
                  ELSE expansions
           /\ stack' =
                  IF built /\ include_related /\ d < max_depth
                  THEN unwind(Append(stack1, frame))
                  ELSE unwind(stack1)
    /\ UNCHANGED <<max_depth, include_related, search_results, last, pc>>
    /\ UNCHANGED dbVars
    /\ UNCHANGED relVars
    /\ UNCHANGED sideVars

get_graph_structure_return ==
    /\ pc = "get_graph_structure"
    /\ stack = <<>>
    /\ calls = <<>>
    /\ pc' = "graph_returned"
    /\ last' = Outcome("get_graph_structure", last.id, "ok")
    /\ UNCHANGED qVars
    /\ UNCHANGED dbVars

\* the process ends; the next command starts from a fresh one
exit ==
    /\ pc \in {"related_returned", "graph_returned"}
    /\ pc' = "idle"
    /\ node_id' = NoNode
    /\ max_depth' = 0
    /\ depth' = 0
    /\ related_nodes' = {}
    /\ visited' = {}
    /\ current_level' = {}
    /\ expansions' = EmptyTable
    /\ result' = {}
    /\ include_related' = FALSE
    /\ search_results' = <<>>
    /\ calls' = <<>>
    /\ stack' = <<>>
    /\ processed_nodes' = {}
    /\ graph_nodes' = <<>>
    /\ last' = Outcome("exit", <<>>, "ok")
    /\ UNCHANGED dbVars
    /\ UNCHANGED sideVars

----------------------------------------------------------------------------
(* Identifier allocation *)

\* the number get_next_id_number(prefix) returns
next_number(prefix) ==
    IF prefix \in DOMAIN id_counters THEN id_counters[prefix] ELSE 1

\* counted with the column default as the first value of a new counter
counted_from_default(prefix) ==
    IF prefix \in DOMAIN id_counters
    THEN [id_counters EXCEPT ![prefix] = next_number(prefix) + 1]
    ELSE Insert(id_counters, prefix, 1)

\* the table id_counters after get_next_id_number(prefix): the UPDATE of the
\* prefix's row, or the INSERT of a new one
counted(prefix) ==
    IF prefix \in DOMAIN id_counters
    THEN [id_counters EXCEPT ![prefix] = next_number(prefix) + 1]
    ELSE Insert(id_counters, prefix, 2)

\* the numbers returned for a prefix so far, with the one returned now
returned(prefix) ==
    Insert(issued, prefix,
           Append(IF prefix \in DOMAIN issued THEN issued[prefix] ELSE <<>>,
                  next_number(prefix)))

get_next_id_number(prefix) ==
    /\ Idle
    /\ id_counters' = counted(prefix)
    /\ issued' = returned(prefix)
    /\ last' = Outcome("get_next_id_number", <<prefix>>, "ok")
    /\ UNCHANGED <<pc, now, found>>
    /\ UNCHANGED dbVars
    /\ UNCHANGED relVars
    /\ UNCHANGED gsVars
    /\ UNCHANGED <<max_depth, expansions>>

\* f"T{number}", as a word
IdWords == <<"T1", "T2", "T3", "T4", "T5", "T6">>

\* the topic command without --id: the id is the prefix "T" and the next
\* number of its counter, and the entity is stored under it
topic(text, short_name) ==
    LET e_id        == <<IdWords[next_number("T")]>>
        entity_data == [name |-> text, short_name |-> short_name]
        new_node_id == fresh_node_id(nodes)
    IN  /\ Idle
        /\ id_counters' = counted("T")
        /\ issued' = returned("T")
        /\ nodes' = create_node(nodes, "entities", e_id, entity_data)
        /\ IF e_id \in DOMAIN entities
             THEN /\ entities' = entities
                  /\ last' = Outcome("topic", e_id, "already_exists")
             ELSE /\ entities' = Insert(entities, e_id,
                                    [id         |-> e_id,
                                     name       |-> text,
                                     short_name |-> short_name,
                                     node_id    |-> new_node_id])
                  /\ last' = Outcome("topic", e_id, "ok")
        /\ UNCHANGED <<attributes, files, edges, pc, now, found>>
        /\ UNCHANGED relVars
        /\ UNCHANGED gsVars
        /\ UNCHANGED <<max_depth, expansions>>

----------------------------------------------------------------------------
(* Inputs *)

EntityIds    == {<<"T1">>, <<"T2">>}
\* (name, short_name) of the entities stored
EntityFields == {<<<<"car">>, None>>, <<<<"apple">>, <<"a">>>>}
FileIds      == {<<"F1">>}
FilePaths    == {<<"a", ".", "txt">>}
Descriptions == {None}
AboutIds     == {<<"T1">>, <<"F1">>}
AttrTypes    == {<<"FACT">>}
Subjects     == {<<"color">>}
Details      == {<<"red">>}
EdgeTypes    == {<<"references">>}
EdgeContents == {None}
\* the (table, record id) pairs a caller links: the static ids, stored or not,
\* and the attributes stored so far
LinkEnds     == ({"entities"} \X EntityIds) \cup ({"files"} \X FileIds)
                \cup ({"attributes"} \X DOMAIN attributes)
\* the node ids handed to create_edge and get_related_nodes; each is the id of
\* a node or not, depending on how many nodes there are
EdgeEnds     == {1, 2, 3}

----------------------------------------------------------------------------
(* Spec: the store and link operations *)

Init ==
    /\ entities = EmptyTable
    /\ attributes = EmptyTable
    /\ files = EmptyTable
    /\ nodes = <<>>
    /\ edges = <<>>
    /\ last = Outcome("init_database", <<>>, "ok")
    /\ pc = "idle"
    /\ node_id = NoNode
    /\ max_depth = 0
    /\ depth = 0
    /\ related_nodes = {}
    /\ visited = {}
    /\ current_level = {}
    /\ expansions = EmptyTable
    /\ result = {}
    /\ include_related = FALSE
    /\ search_results = <<>>
    /\ calls = <<>>
    /\ stack = <<>>
    /\ processed_nodes = {}
    /\ graph_nodes = <<>>
    /\ id_counters = EmptyTable
    /\ issued = EmptyTable
    /\ now = 0
    /\ found = <<>>

StoreEntity ==
    \E e_id \in EntityIds, f \in EntityFields :
        /\ Len(nodes) < MaxNodes
        /\ store_entity(e_id, f[1], f[2])

StoreFile ==
    \E file_id \in FileIds, file_path \in FilePaths, d \in Descriptions :
        /\ Len(nodes) < MaxNodes
        /\ store_file(file_id, file_path, d)

StoreAttribute ==
    \E attr_id \in AboutIds, t \in AttrTypes, s \in Subjects, d \in Details :
        /\ Len(nodes) < MaxNodes
        /\ attr_id \in DOMAIN entities => Len(edges) < MaxEdges
        /\ store_attribute(attr_id, t, s, d)

LinkNodes ==
    \E f \in LinkEnds, t \in LinkEnds, et \in EdgeTypes, c \in EdgeContents :
        /\ Len(edges) < MaxEdges
        /\ link_nodes(f[1], f[2], t[1], t[2], et, c)

CreateEdge ==
    \E f \in EdgeEnds, t \in EdgeEnds, et \in EdgeTypes, c \in EdgeContents :
        /\ Len(edges) < MaxEdges
        /\ create_edge(f, t, et, c)

Next ==
    \/ StoreEntity
    \/ StoreFile
    \/ StoreAttribute
    \/ LinkNodes
    \/ CreateEdge

Spec == Init /\ [][Next]_vars

----------------------------------------------------------------------------
(* SpecRelated: a graph is built, get_related_nodes is run on it *)

GraphStoreEntity ==
    \E e_id \in EntityIds :
        /\ Len(nodes) < GraphNodes
        /\ store_entity(e_id, <<"car">>, None)

GraphCreateEdge ==
    \E f \in EdgeEnds, t \in EdgeEnds :
        /\ Len(edges) < GraphEdges
        /\ create_edge(f, t, <<"references">>, None)

GetRelatedNodes ==
    \E n \in EdgeEnds, d \in 0 .. MaxDepth : get_related_nodes(n, d)

NextRelated ==
    \/ GraphStoreEntity
    \/ GraphCreateEdge
    \/ GetRelatedNodes
    \/ expand_level
    \/ get_related_nodes_return
    \/ exit

SpecRelated == Init /\ [][NextRelated]_vars

FairRelated ==
    /\ SpecRelated
    /\ WF_vars(expand_level)
    /\ WF_vars(get_related_nodes_return)

----------------------------------------------------------------------------
(* SpecGraph: a graph is built, get_graph_structure is run on it *)

\* rows of the nodes and edges tables, and the largest depth asked for
TreeNodes == 3
TreeEdges == 2
TreeDepth == 2

Queries == {<<"car">>, <<"color">>}
\* the node ids handed to create_edge
TreeEnds == {1, 2}

TreeStoreEntity ==
    \E e_id \in EntityIds :
        /\ Len(nodes) < TreeNodes
        /\ store_entity(e_id, <<"car">>, None)

TreeStoreAttribute ==
    /\ Len(nodes) < TreeNodes
    /\ <<"T1">> \in DOMAIN entities => Len(edges) < TreeEdges
    /\ store_attribute(<<"T1">>, <<"FACT">>, <<"color">>, <<"red">>)

TreeCreateEdge ==
    \E f \in TreeEnds, t \in TreeEnds :
        /\ Len(edges) < TreeEdges
        /\ create_edge(f, t, <<"references">>, None)

GetGraphStructure ==
    \E q \in Queries, incl \in BOOLEAN, d \in 0 .. TreeDepth :
        get_graph_structure(q, incl, d)

\* a query that is no FTS5 string once it is quoted
GetGraphStructureQuote == get_graph_structure(<<"car", Quote>>, TRUE, 1)

NextGraph ==
    \/ TreeStoreEntity
    \/ TreeStoreAttribute
    \/ TreeCreateEdge
    \/ GetGraphStructure
    \/ GetGraphStructureQuote
    \/ build_node_tree
    \/ get_graph_structure_return
    \/ exit

SpecGraph == Init /\ [][NextGraph]_vars

FairGraph ==
    /\ SpecGraph
    /\ WF_vars(build_node_tree)
    /\ WF_vars(get_graph_structure_return)

----------------------------------------------------------------------------
(* SpecSearch: records are stored as time goes by, and searched *)

\* rows of the nodes table, and the seconds that go by
IndexNodes == 3
MaxClock == 2

SearchNames   == {<<"car", " ", "two">>, <<"apple">>}
SearchQueries ==
    {<<>>, <<" ">>, <<"T1">>, <<"T1", "-", "h1">>, <<"two", " ", "car">>,
     <<"car", Quote>>, <<"car", " ", "OR", " ", "apple">>,
     <<"FACT", ":", " ", "color">>}

SearchStoreEntity ==
    \E e_id \in EntityIds, n \in SearchNames :
        /\ Len(nodes) < IndexNodes
        /\ store_entity(e_id, n, None)

SearchStoreAttribute ==
    /\ Len(nodes) < IndexNodes
    /\ store_attribute(<<"T1">>, <<"FACT">>, <<"color">>, <<"red">>)

Tick ==
    /\ now < MaxClock
    /\ tick

SearchRecords == \E q \in SearchQueries : search_records(q)

SearchNodes == \E q \in SearchQueries : search_nodes_call(q)

NextSearch ==
    \/ SearchStoreEntity
    \/ SearchStoreAttribute
    \/ Tick
    \/ SearchRecords
    \/ SearchNodes

SpecSearch == Init /\ [][NextSearch]_vars

----------------------------------------------------------------------------
(* SpecEntities: records are stored and linked, with the ids used again *)

\* rows of the nodes and edges tables
EntityNodes == 3
EntityEdges == 2

EntitiesStoreEntity ==
    \E e_id \in EntityIds, f \in EntityFields :
        /\ Len(nodes) < EntityNodes
        /\ store_entity(e_id, f[1], f[2])

EntitiesStoreFile ==
    /\ Len(nodes) < EntityNodes
    /\ store_file(<<"F1">>, <<"a", ".", "txt">>, None)

EntitiesStoreAttribute ==
    \E attr_id \in AboutIds :
        /\ Len(nodes) < EntityNodes
        /\ attr_id \in DOMAIN entities => Len(edges) < EntityEdges
        /\ store_attribute(attr_id, <<"FACT">>, <<"color">>, <<"red">>)

EntitiesLinkNodes ==
    \E t \in EntityIds :
        /\ Len(edges) < EntityEdges
        /\ link_nodes("entities", <<"T1">>, "entities", t, <<"references">>,
                      None)

NextEntities ==
    \/ EntitiesStoreEntity
    \/ EntitiesStoreFile
    \/ EntitiesStoreAttribute
    \/ EntitiesLinkNodes

SpecEntities == Init /\ [][NextEntities]_vars

----------------------------------------------------------------------------
(* SpecIds: ids are allocated, entities are stored with and without an id *)

\* rows of the nodes table, and the numbers handed out for one prefix
IdNodes == 3
MaxIds == 3

Prefixes == {"T", "F"}

IdsStoreEntity ==
    \E e_id \in EntityIds :
        /\ Len(nodes) < IdNodes
        /\ store_entity(e_id, <<"car">>, None)

Topic ==
    /\ Len(nodes) < IdNodes
    /\ next_number("T") <= MaxIds
    /\ topic(<<"apple">>, None)

GetNextIdNumber ==
    \E prefix \in Prefixes :
        /\ next_number(prefix) <= MaxIds
        /\ get_next_id_number(prefix)

NextIds ==
    \/ IdsStoreEntity
    \/ Topic
    \/ GetNextIdNumber

SpecIds == Init /\ [][NextIds]_vars

----------------------------------------------------------------------------
(* SpecLinks: records are stored, and linked whether they are stored or not *)

\* rows of the nodes and edges tables
LinkedNodes == 3
LinkedEdges == 1

LinksStoreEntity ==
    \E e_id \in EntityIds :
        /\ Len(nodes) < LinkedNodes
        /\ store_entity(e_id, <<"car">>, None)

LinksStoreFile ==
    /\ Len(nodes) < LinkedNodes
    /\ store_file(<<"F1">>, <<"a", ".", "txt">>, None)

LinksStoreAttribute ==
    /\ Len(nodes) < LinkedNodes
    /\ <<"T1">> \in DOMAIN entities => Len(edges) < LinkedEdges
    /\ store_attribute(<<"T1">>, <<"FACT">>, <<"color">>, <<"red">>)

LinksLinkNodes ==
    \E f \in LinkEnds, t \in LinkEnds, et \in EdgeTypes :
        /\ Len(edges) < LinkedEdges
        /\ link_nodes(f[1], f[2], t[1], t[2], et, None)

NextLinks ==
    \/ LinksStoreEntity
    \/ LinksStoreFile
    \/ LinksStoreAttribute
    \/ LinksLinkNodes

SpecLinks == Init /\ [][NextLinks]_vars

----------------------------------------------------------------------------
(* SpecKnowledge: a graph is built, search_knowledge_graph is run on it *)

\* rows of the nodes and edges tables, and the largest depth asked for
KnowledgeNodes == 3
KnowledgeEdges == 2
KnowledgeDepth == 2

KnowledgeStoreEntity ==
    \E e_id \in EntityIds :
        /\ Len(nodes) < KnowledgeNodes
        /\ store_entity(e_id, <<"car">>, None)

KnowledgeStoreAttribute ==
    /\ Len(nodes) < KnowledgeNodes
    /\ <<"T1">> \in DOMAIN entities => Len(edges) < KnowledgeEdges
    /\ store_attribute(<<"T1">>, <<"FACT">>, <<"color">>, <<"red">>)

KnowledgeCreateEdge ==
    \E f \in TreeEnds, t \in TreeEnds :
        /\ Len(edges) < KnowledgeEdges
        /\ create_edge(f, t, <<"references">>, None)

SearchKnowledgeGraph ==
    \E q \in Queries, incl \in BOOLEAN, d \in 0 .. KnowledgeDepth :
        search_knowledge_graph(q, incl, d)

\* a query that is no FTS5 string once it is quoted
SearchKnowledgeGraphQuote == search_knowledge_graph(<<"car", Quote>>, TRUE, 1)

NextKnowledge ==
    \/ KnowledgeStoreEntity
    \/ KnowledgeStoreAttribute
    \/ KnowledgeCreateEdge
    \/ SearchKnowledgeGraph
    \/ SearchKnowledgeGraphQuote

SpecKnowledge == Init /\ [][NextKnowledge]_vars

----------------------------------------------------------------------------
(* SpecBuilders: records are stored with fields present and empty *)

\* rows of the nodes table
BuilderNodes == 3

\* a string field, empty or not
Texts(word) == {<<>>, <<word>>}
\* (table_name, record_data) of the direct calls of create_node
NodeData ==
    {<<"entities", [name |-> <<"car">>, short_name |-> None]>>,
     <<"notes", [content |-> <<"car">>]>>}

BuildersStoreEntity ==
    \E e_id \in EntityIds, n \in Texts("car"), s \in Texts("a") :
        /\ Len(nodes) < BuilderNodes
        /\ store_entity(e_id, n, s)

BuildersStoreAttribute ==
    \E t \in Texts("FACT"), s \in Texts("color"), d \in Texts("red") :
        /\ Len(nodes) < BuilderNodes
        /\ store_attribute(<<"T1">>, t, s, d)

BuildersStoreFile ==
    \E p \in Texts("txt"), d \in Texts("a") :
        /\ Len(nodes) < BuilderNodes
        /\ store_file(<<"F1">>, p, d)

CreateNode ==
    \E nd \in NodeData :
        /\ Len(nodes) < BuilderNodes
        /\ create_node_call(nd[1], <<"T2">>, nd[2])

NextBuilders ==
    \/ BuildersStoreEntity
    \/ BuildersStoreAttribute
    \/ BuildersStoreFile
    \/ CreateNode

SpecBuilders == Init /\ [][NextBuilders]_vars

----------------------------------------------------------------------------
(* Claims about the store operations (Spec) *)

StoreOps == {"store_entity", "store_file", "store_attribute"}

\* C1: a store operation that fails leaves the nodes table exactly as it was
\* before the call.
C1_FailedStoreLeavesNodes ==
    [][(last'.op \in StoreOps /\ last'.status # "ok") => nodes' = nodes]_vars

NodesOf(table_name, record_id) ==
    {i \in DOMAIN nodes : /\ nodes[i].table_name = table_name
                          /\ nodes[i].record_id = record_id}

\* C2: every stored record has exactly one node naming it, and every node
\* names a stored record.
C2_OneNodePerRecord ==
    /\ \A t \in SEARCHABLE_BUILDERS : \A r \in DOMAIN table(t) :
           Cardinality(NodesOf(t, r)) = 1
    /\ \A i \in DOMAIN nodes :
           nodes[i].record_id \in DOMAIN table(nodes[i].table_name)

\* C3: a store_entity or store_file whose id is already stored ends with the
\* duplicate-identifier error and leaves the stored row (all its fields) as
\* it was.
C3_DuplicateStoreRejected ==
    [][/\ (last'.op = "store_entity" /\ last'.id \in DOMAIN entities)
          => /\ last'.status = "already_exists"
             /\ entities'[last'.id] = entities[last'.id]
       /\ (last'.op = "store_file" /\ last'.id \in DOMAIN files)
          => /\ last'.status = "already_exists"
             /\ files'[last'.id] = files[last'.id]
      ]_vars

\* a duplicate store_entity was just rejected, and it carried a name other
\* than the stored one
C3_Witness ==
    /\ last.op = "store_entity"
    /\ last.status = "already_exists"
    /\ nodes[Len(nodes)].record_id = last.id
    /\ nodes[Len(nodes)].searchable_content
         # nodes[entities[last.id].node_id].searchable_content

\* C4: the two ends of every edge are ids of existing nodes.
C4_EdgesJoinNodes ==
    \A i \in DOMAIN edges :
        /\ edges[i].from_node_id \in NodeIds
        /\ edges[i].to_node_id \in NodeIds

----------------------------------------------------------------------------
(* Claims about get_related_nodes (SpecRelated, FairRelated) *)

Returned == pc = "related_returned"

\* C5: the related set never contains the seed.
C5_SeedNotRelated == Returned => node_id \notin result

\* an edge joins a and b, in one direction or the other
Joined(a, b) ==
    \E i \in DOMAIN edges :
        \/ edges[i].from_node_id = a /\ edges[i].to_node_id = b
        \/ edges[i].from_node_id = b /\ edges[i].to_node_id = a

EdgeEndIds ==
    {edges[i].from_node_id : i \in DOMAIN edges}
    \cup {edges[i].to_node_id : i \in DOMAIN edges}

RECURSIVE WithinHops(_, _)
\* the ids joined to n by a path of at most k edges
WithinHops(n, k) ==
    IF k = 0 THEN {n}
    ELSE LET near == WithinHops(n, k - 1)
         IN  near \cup {m \in EdgeEndIds : \E x \in near : Joined(x, m)}

\* C6: a node other than the seed is returned exactly when a path of at most
\* max_depth edges, each followed in either direction, joins it to the seed.
C6_RelatedIffPath ==
    Returned =>
        \A m \in NodeIds \ {node_id} :
            m \in result <=> m \in WithinHops(node_id, max_depth)

\* a node two hops away was returned, reached against the direction of an edge
C6_Witness ==
    /\ Returned
    /\ \E m \in result :
          /\ m # node_id
          /\ m \notin WithinHops(node_id, 1)
          /\ \E x \in incoming(edges, node_id) : m \in incoming(edges, x)

\* C7: no node is expanded more than once, and a traversal that has started
\* returns.
C7_ExpandedOnceAndReturns ==
    /\ [](\A n \in DOMAIN expansions : expansions[n] <= 1)
    /\ (pc = "get_related_nodes") ~> Returned

\* a traversal of depth 3 returned from a seed on a cycle A->B->A
C7_Witness ==
    /\ Returned
    /\ depth = 3
    /\ \E b \in outgoing(edges, node_id) :
          /\ b # node_id
          /\ node_id \in outgoing(edges, b)
          /\ count(b) = 1
    /\ count(node_id) = 1

\* C8: with max_depth = 0 nothing is expanded and the related set is empty.
C8_DepthZeroIsEmpty ==
    (Returned /\ max_depth = 0) =>
        /\ result = {}
        /\ \A n \in DOMAIN expansions : expansions[n] = 0

\* a traversal of depth 0 returned from a node that has neighbours
C8_Witness ==
    /\ Returned
    /\ max_depth = 0
    /\ node_id \in NodeIds
    /\ neighbours(edges, node_id) \cap NodeIds # {}

----------------------------------------------------------------------------
(* Claims about get_graph_structure (SpecGraph, FairGraph) *)

GraphReturned == pc = "graph_returned"

\* the nodes the search matched
Matched ==
    {search_results[i].node_id :
        i \in {j \in DOMAIN search_results : search_results[j].source = "node"}}

\* where node n stands in the result, and where it stands at the top level
Emitted(n) == {i \in DOMAIN graph_nodes : graph_nodes[i].node = n}
TopLevel(n) == {i \in Emitted(n) : graph_nodes[i].parent = 0}

\* C9: every node matched by the search is the root of one top-level subtree
\* of the result.
C9_EveryMatchIsTopLevel ==
    GraphReturned => \A n \in Matched : Cardinality(TopLevel(n)) = 1

\* C10: within one build no node is expanded or emitted more than once, and a
\* build that has started returns.
C10_BuiltOnceAndReturns ==
    /\ [](\A n \in DOMAIN expansions : expansions[n] <= 1)
    /\ [](\A i \in DOMAIN graph_nodes :
              Cardinality(Emitted(graph_nodes[i].node)) = 1)
    /\ (pc = "get_graph_structure") ~> GraphReturned

\* a build returned a tree A -> B over a cycle of outgoing edges A -> B -> A
\* that it was deep enough to follow round
C10_Witness ==
    /\ GraphReturned
    /\ include_related
    /\ max_depth >= 2
    /\ \E i, j \in DOMAIN graph_nodes :
          /\ graph_nodes[i].parent = 0
          /\ graph_nodes[j].parent = i
          /\ graph_nodes[i].node # graph_nodes[j].node
          /\ graph_nodes[i].node \in outgoing(edges, graph_nodes[j].node)

\* C11: a context build whose search finds no match returns an empty result
\* and raises no error.
C11_NoMatchIsEmpty ==
    (GraphReturned /\ ~ search_nodes_raises(last.id) /\ search_results = <<>>)
        => /\ last.status = "ok"
           /\ graph_nodes = <<>>

\* a build over a graph of two joined nodes returned, its search having
\* matched neither
C11_Witness ==
    /\ GraphReturned
    /\ ~ search_nodes_raises(last.id)
    /\ search_results = <<>>
    /\ last.status = "ok"
    /\ Len(nodes) >= 2
    /\ edges # <<>>

----------------------------------------------------------------------------
(* Claims about search (SpecSearch) *)

RecordIds == DOMAIN entities \cup DOMAIN attributes \cup DOMAIN files

\* C12: a search whose query is the id of a stored record returns that record
\* first.
C12_ExactIdFirst ==
    /\ (last.op = "search_records" /\ last.id \in RecordIds)
          => /\ found # <<>>
             /\ found[1].id = last.id
    /\ (last.op = "search_nodes" /\ last.id \in RecordIds)
          => /\ last.status = "ok"
             /\ found # <<>>
             /\ found[1].source = "node"
             /\ nodes[found[1].node_id].record_id = last.id

\* the node a record was stored with
OwnNode(row) ==
    /\ row.record_id \in DOMAIN table(row.table_name)
    /\ table(row.table_name)[row.record_id].node_id = row.id

RECURSIVE NewestFirst(_)
\* the ids of the records, the one stored last first
NewestFirst(rows) ==
    IF rows = <<>> THEN <<>>
    ELSE (IF OwnNode(rows[Len(rows)])
          THEN <<rows[Len(rows)].record_id>> ELSE <<>>)
         \o NewestFirst(SubSeq(rows, 1, Len(rows) - 1))

\* C13: a search with an empty or blank query raises no error and returns
\* the records stored last, newest first, at most 10 of them, and at least
\* one when a record is stored.
C13_BlankQueryGivesRecent ==
    (last.op = "search_records" /\ strip(last.id) = <<>>)
        => /\ last.status = "ok"
           /\ RecordIds # {} => found # <<>>
           /\ [i \in DOMAIN found |-> found[i].id]
                = limit(NewestFirst(nodes), RecentLimit)

\* C14: no search ends with an error, whatever the query.
C14_SearchNeverFails ==
    last.op \in {"search_records", "search_nodes"} => last.status = "ok"

\* every token of the query is a token of the text
HasAllTokens(query_tokens, text_tokens) ==
    \A k \in DOMAIN query_tokens :
        \E j \in DOMAIN text_tokens : text_tokens[j] = query_tokens[k]

NodeTokens(row) == tokens(row.record_id) \o tokens(row.searchable_content)

\* C15: a node or an edge is a match of a query exactly when its indexed text
\* holds every token of the query, wherever and in whatever order.
C15_MatchIffAllTokens ==
    /\ (last.op = "search_nodes" /\ last.status = "ok"
            /\ tokens(last.id) # <<>>)
          => /\ \A i \in DOMAIN nodes :
                    (\E k \in DOMAIN found :
                         /\ found[k].source = "node"
                         /\ found[k].node_id = nodes[i].id)
                    <=> HasAllTokens(tokens(last.id), NodeTokens(nodes[i]))
             /\ \A i \in DOMAIN edges :
                    (\E k \in DOMAIN found :
                         /\ found[k].source = "edge"
                         /\ found[k].edge_id = edges[i].id)
                    <=> HasAllTokens(porter_tokens(last.id),
                                     porter_tokens(edges[i].searchable_content))
    /\ (last.op = "search_records" /\ tokens(last.id) # <<>>)
          => \A i \in DOMAIN nodes :
                 (\E k \in DOMAIN found :
                      /\ found[k].id = nodes[i].record_id
                      /\ found[k].searchable_content
                           = nodes[i].searchable_content)
                 <=> HasAllTokens(tokens(last.id), NodeTokens(nodes[i]))

----------------------------------------------------------------------------
(* Claims about entities and their attributes (Spec, SpecEntities) *)

\* what get_entity_context and get_record_by_node give for a stored entity
ContextFields(e) ==
    LET context == get_entity_context(e)[1]
    IN  <<context.e_id, context.entity_name, context.entity_short_name>>

RecordFields(e) ==
    LET record == get_record_by_node(entities[e].node_id)[1]
    IN  <<record.id, record.name, record.short_name>>

\* C16: after a successful store_entity(id, name, short_name) the entity
\* retrieved under that id (get_entity_context, get_record_by_node on its
\* node) has this id, name and short_name, and no later operation changes
\* what is retrieved.
C16_RoundTrip ==
    [][/\ (last'.op = "store_entity" /\ last'.status = "ok")
              => \A e \in EntityIds, f \in EntityFields :
                     store_entity(e, f[1], f[2])
                         => /\ ContextFields(e)' = <<e, f[1], f[2]>>
                            /\ RecordFields(e)' = <<e, f[1], f[2]>>
       /\ \A e \in DOMAIN entities :
              /\ e \in DOMAIN entities'
              /\ ContextFields(e)' = ContextFields(e)
              /\ RecordFields(e)' = RecordFields(e)
      ]_vars

\* an entity stored first with a name and a short name is retrieved with
\* both after two more operations, the last of them a store under its id
\* with other fields
C16_Witness ==
    \E e \in DOMAIN entities :
        /\ entities[e].node_id = 1
        /\ ContextFields(e) = <<e, <<"apple">>, <<"a">>>>
        /\ RecordFields(e) = ContextFields(e)
        /\ Len(nodes) = 3
        /\ last.op = "store_entity"
        /\ last.id = e
        /\ nodes[3].searchable_content = <<"car">>

\* the record an attribute id names: the id without its "-<hex>" suffix
TargetOf(attr_id) == SubSeq(attr_id, 1, Len(attr_id) - 2)

NodeOfRecord(r) ==
    IF r \in DOMAIN entities THEN entities[r].node_id
    ELSE IF r \in DOMAIN files THEN files[r].node_id
    ELSE attributes[r].node_id

\* C17: a successful store_attribute about a stored record, whatever its
\* type, adds exactly one edge, of type has_attribute, from the node of that
\* record to the node of the new attribute.
C17_AttributeEdge ==
    [][(/\ last'.op = "store_attribute"
        /\ last'.status = "ok"
        /\ TargetOf(last'.id) \in RecordIds)
          => /\ Len(edges') = Len(edges) + 1
             /\ edges'[Len(edges')].edge_type = <<"has_attribute">>
             /\ edges'[Len(edges')].from_node_id
                  = NodeOfRecord(TargetOf(last'.id))
             /\ edges'[Len(edges')].to_node_id = attributes'[last'.id].node_id
      ]_vars

\* the attributes an edge joins to the node of entity e
LinkedAttributes(e) ==
    {a \in DOMAIN attributes :
        \E i \in DOMAIN edges :
            /\ edges[i].from_node_id = entities[e].node_id
            /\ edges[i].to_node_id = attributes[a].node_id}

\* C18: the attributes in the context of an entity are exactly the
\* attributes linked to that entity.
C18_ContextIsLinked ==
    \A e \in DOMAIN entities :
        {r.id : r \in get_entity_context(e)[1].attributes}
            = LinkedAttributes(e)

----------------------------------------------------------------------------
(* Claims about identifier allocation (SpecIds) *)

Calls(prefix) == IF prefix \in DOMAIN issued THEN issued[prefix] ELSE <<>>

Counter(prefix) ==
    IF prefix \in DOMAIN id_counters THEN id_counters[prefix] ELSE 0

\* C19: the calls of get_next_id_number for one prefix return 1, 2, 3, ...
\* in this order, and a call for one prefix leaves the counter of every
\* other prefix as it was.
C19_CountersCount ==
    /\ [](\A p \in DOMAIN issued :
              \A i \in DOMAIN issued[p] : issued[p][i] = i)
    /\ [][\A p \in Prefixes :
              Calls(p)' # Calls(p)
                  => \A q \in Prefixes \ {p} : Counter(q)' = Counter(q)]_vars

\* numbers were handed out for two prefixes, the calls for the one between
\* the calls for the other
C19_Witness ==
    /\ Len(Calls("T")) >= 3
    /\ Len(Calls("F")) >= 2
    /\ last.op = "get_next_id_number"
    /\ last.id = <<"T">>
    /\ Counter("F") = 3

----------------------------------------------------------------------------
(* Claims about searchable content and create_node (SpecBuilders) *)

RECURSIVE PresentFields(_, _)
\* the fields of a record named by a list, the empty ones left out
PresentFields(record, names) ==
    IF names = <<>> THEN <<>>
    ELSE (IF record[Head(names)] = <<>> THEN <<>>
          ELSE <<record[Head(names)]>>)
         \o PresentFields(record, Tail(names))

\* C21: the searchable_content of the node of every record is the record's
\* searchable fields, in registry order, the empty ones left out, with one
\* space between two fields.
C21_ContentIsFieldsJoined ==
    \A t \in SEARCHABLE_BUILDERS : \A r \in DOMAIN table(t) :
        nodes[table(t)[r].node_id].searchable_content
            = join(<<" ">>, PresentFields(table(t)[r], searchable_fields(t)))

----------------------------------------------------------------------------
(* Claims about link_nodes (SpecLinks) *)

Stored(end) == end[2] \in DOMAIN table(end[1])

\* C22: link_nodes ends with an error and leaves the edges table as it was
\* when the source or the target record is not stored; when both are, it adds
\* exactly one edge, of the type given, from the node of the source record to
\* the node of the target record.
C22_LinkNeedsBothRecords ==
    [][last'.op = "link_nodes"
          => \A f \in LinkEnds, t \in LinkEnds, et \in EdgeTypes :
                 link_nodes(f[1], f[2], t[1], t[2], et, None)
                     => IF Stored(f) /\ Stored(t)
                          THEN /\ last'.status = "ok"
                               /\ Len(edges') = Len(edges) + 1
                               /\ SubSeq(edges', 1, Len(edges)) = edges
                               /\ edges'[Len(edges')].from_node_id
                                    = table(f[1])[f[2]].node_id
                               /\ edges'[Len(edges')].to_node_id
                                    = table(t[1])[t[2]].node_id
                               /\ edges'[Len(edges')].edge_type = et
                          ELSE /\ last'.status = "not_found"
                               /\ edges' = edges
      ]_vars

\* an entity was just linked to an attribute
C22_Witness ==
    /\ last.op = "link_nodes"
    /\ last.status = "ok"
    /\ edges # <<>>
    /\ nodes[edges[Len(edges)].from_node_id].table_name = "entities"
    /\ nodes[edges[Len(edges)].to_node_id].table_name = "attributes"
    /\ edges[Len(edges)].edge_type = <<"references">>

----------------------------------------------------------------------------
(* Claims about the tree of get_graph_structure (SpecGraph) *)

\* the entries of the result that are children of entry i
Children(i) == {j \in DOMAIN graph_nodes : graph_nodes[j].parent = i}

\* the 'edges' list of the entry of node n holds a has_attribute edge to m
HasAttributeEdge(n, m) ==
    \E k \in DOMAIN get_edges_from_node(n) :
        /\ get_edges_from_node(n)[k].edge_type = <<"has_attribute">>
        /\ get_edges_from_node(n)[k].to_node_id = m

\* C23: when an entity and then an attribute about it have been stored, a
\* build at depth 1 whose search matches the entity's node and nothing else
\* returns one top-level entry, the entity, with the attribute as its child,
\* the stored has_attribute edge joining the two.
C23_EntityWithAttributeChild ==
    (GraphReturned /\ include_related /\ max_depth = 1)
        => \A e \in DOMAIN entities :
               search_results = <<node_result(nodes[entities[e].node_id])>>
                   => /\ {i \in DOMAIN graph_nodes : graph_nodes[i].parent = 0}
                           = {1}
                      /\ graph_nodes[1].node = entities[e].node_id
                      /\ graph_nodes[1].record = e
                      /\ \A a \in DOMAIN attributes :
                             (/\ TargetOf(a) = e
                              /\ attributes[a].node_id > entities[e].node_id)
                                 => /\ \E j \in Children(1) :
                                           /\ graph_nodes[j].node
                                                = attributes[a].node_id
                                           /\ graph_nodes[j].record = a
                                    /\ HasAttributeEdge(entities[e].node_id,
                                                        attributes[a].node_id)

\* the build returned the entity with its attribute below it, for a graph
\* that holds nothing else
C23_Witness ==
    /\ GraphReturned
    /\ include_related
    /\ max_depth = 1
    /\ Len(nodes) = 2
    /\ Len(edges) = 1
    /\ nodes[1].table_name = "entities"
    /\ nodes[2].table_name = "attributes"
    /\ search_results = <<node_result(nodes[1])>>
    /\ Len(graph_nodes) = 2
    /\ graph_nodes[2].parent = 1
    /\ graph_nodes[2].node = 2
    /\ edges[graph_nodes[2].via].edge_type = <<"has_attribute">>

----------------------------------------------------------------------------
(* Claims about create_node (SpecBuilders) *)

\* C24: create_node for a table without a registered builder ends with the
\* unregistered-type error and adds no row to the nodes table, so that no
\* node row names such a table; for a table with a builder it adds a row.
C24_UnregisteredTableRejected ==
    [][/\ last'.op = "create_node"
          => \A nd \in NodeData :
                 create_node_call(nd[1], last'.id, nd[2])
                     => IF nd[1] \in SEARCHABLE_BUILDERS
                          THEN /\ last'.status = "ok"
                               /\ Len(nodes') = Len(nodes) + 1
                          ELSE /\ last'.status = "unregistered"
                               /\ nodes' = nodes
       /\ \A i \in DOMAIN nodes' :
              nodes'[i].table_name \in SEARCHABLE_BUILDERS
      ]_vars

\* create_node was just refused for a table that has no builder, records
\* and nodes being stored
C24_Witness ==
    /\ last.op = "create_node"
    /\ last.status = "unregistered"
    /\ Len(nodes) >= 2
    /\ entities # EmptyTable

----------------------------------------------------------------------------
(* Claims about what the operations leave alone (Spec) *)

----------------------------------------------------------------------------
(* Claims about the shape of the tree (SpecGraph) *)

\* C26: in the tree of get_graph_structure every entry lies at most max_depth
\* levels below its top-level entry, every child is joined to its parent by a
\* stored edge from the parent's node to the child's node, and without
\* include_related no entry has a child.
C26_TreeFollowsOutgoingEdges ==
    \A i \in DOMAIN graph_nodes :
        LET entry == graph_nodes[i]
        IN  /\ entry.depth <= max_depth
            /\ entry.parent = 0 => entry.depth = 0
            /\ entry.parent # 0
                 => /\ include_related
                    /\ entry.parent \in 1 .. i - 1
                    /\ entry.depth = graph_nodes[entry.parent].depth + 1
                    /\ \E k \in DOMAIN edges :
                           /\ edges[k].from_node_id
                                = graph_nodes[entry.parent].node
                           /\ edges[k].to_node_id = entry.node

\* a build returned a tree with a child at the depth limit, which has an edge
\* to a node that is left out, and an edge into it from a node that is not
\* its child
C26_Witness ==
    /\ GraphReturned
    /\ include_related
    /\ \E j \in DOMAIN graph_nodes :
           /\ graph_nodes[j].parent # 0
           /\ graph_nodes[j].depth = max_depth
           /\ \E c \in outgoing(edges, graph_nodes[j].node) \cap NodeIds :
                  Emitted(c) = {}
           /\ \E m \in incoming(edges, graph_nodes[j].node) \cap NodeIds :
                  /\ m # graph_nodes[j].node
                  /\ \A k \in Children(j) : graph_nodes[k].node # m

RECURSIVE OutWithin(_, _)
\* the nodes a path of at most k outgoing edges leads to from node n, by way
\* of nodes only
OutWithin(n, k) ==
    IF k = 0 THEN {n} \cap NodeIds
    ELSE LET near == OutWithin(n, k - 1)
         IN  near \cup (UNION {outgoing(edges, x) : x \in near} \cap NodeIds)

\* C27: with include_related, every node that at most max_depth outgoing
\* edges lead to from a matched node is an entry of the tree returned.
C27_ReachableIsInTree ==
    (GraphReturned /\ last.status = "ok" /\ include_related)
        => \A m \in Matched : \A n \in OutWithin(m, max_depth) :
               Emitted(n) # {}

----------------------------------------------------------------------------
(* Claims about search_knowledge_graph (SpecKnowledge) *)

\* the seeds: the nodes found and both ends of the edges found
SeedsOf(results) ==
    {results[i].node_id :
        i \in {j \in DOMAIN results : results[j].source = "node"}}
    \cup {results[i].from_node_id :
             i \in {j \in DOMAIN results : results[j].source = "edge"}}
    \cup {results[i].to_node_id :
             i \in {j \in DOMAIN results : results[j].source = "edge"}}

\* C28: no record among the related_records of search_knowledge_graph is the
\* record of a seed.
C28_RelatedExcludesSeeds ==
    (last.op = "search_knowledge_graph" /\ last.status = "ok")
        => \A r \in found.related_records :
               r.node_id \notin SeedsOf(found.search_results)

----------------------------------------------------------------------------
(* Claims about the records a search returns (SpecSearch) *)

NoRecordTwice(records) ==
    \A i, j \in DOMAIN records :
        i < j => <<records[i].type, records[i].id>>
                   # <<records[j].type, records[j].id>>

\* C29: whatever was stored, and whatever store failed, search_records and
\* get_recent_records return no record twice.
C29_EachRecordOnce ==
    /\ last.op = "search_records" => NoRecordTwice(found)
    /\ NoRecordTwice(get_recent_records(RecentLimit))

----------------------------------------------------------------------------
(* Claims about records and their nodes (Spec) *)

\* C30: the node_id of every record is the id of a node that names the
\* record's table and id, and get_record_by_node gives the record back for
\* the node id that get_node_id_by_record_id gives for it.
C30_RecordAndNodeAgree ==
    \A t \in SEARCHABLE_BUILDERS : \A r \in DOMAIN table(t) :
        LET n == get_node_id_by_record_id(t, r)
        IN  /\ n = table(t)[r].node_id
            /\ n \in NodeIds
            /\ get_node_by_id(n)[1].table_name = t
            /\ get_node_by_id(n)[1].record_id = r
            /\ get_record_by_node(n) = <<table(t)[r]>>

\* a file and an entity are stored, and a second store under the id of the
\* entity has left a node behind
C30_Witness ==
    /\ Len(nodes) = 3
    /\ DOMAIN files # {}
    /\ DOMAIN entities # {}
    /\ \E e \in DOMAIN entities :
           /\ nodes[3].record_id = e
           /\ nodes[3].table_name = "entities"
           /\ entities[e].node_id < 3
           /\ get_record_by_node(3) = <<entities[e]>>

====
